---- MODULE Spec2Model ----
(***************************************************************************)
(* A model of app.py, the UNICEF donations dashboard: one Streamlit script *)
(* that is re-executed from its first line on every interaction.  A run    *)
(* reads the uploaded CSV file, loads it into a table (load_data), and     *)
(* renders five aggregates of that table.                                  *)
(*                                                                         *)
(* Data representation.  A CSV cell that pandas reads as missing (an empty *)
(* cell) is the empty tuple <<>>; a present value v is <<v>>.  The same    *)
(* holds for values of the loaded table: <<>> is NaN / NaT.  Amounts are   *)
(* whole euros (integers), so sums are exact; timestamps are seconds since *)
(* 1970-01-01 00:00:00.  Only the eight columns the script reads are kept; *)
(* the other eight are carried through load_data untouched and never read. *)
(***************************************************************************)
EXTENDS Integers, Sequences, FiniteSets, TLC

VARIABLES
    uploaded_file,  \* what st.file_uploader returns in this run: NoFile or a file
    pc,             \* the position of the running script
    df,             \* the script's variable df: NoTable until load_data returns
    today,          \* the script's variable today (RFM reference date): <<>> or <<ts>>
    out,            \* the elements rendered on the page in this run, in order
    now,            \* the wall clock (a day number); app.py never reads it
    earlier         \* history: one earlier finished run, [file, out, today], or NoRun

vars == <<uploaded_file, pc, df, today, out, now, earlier>>

NaN == <<>>
NaT == <<>>
NoFile == [columns |-> -1, rows |-> <<>>]
NoTable == <<[Unloaded |-> TRUE]>>
NoRun == [file |-> NoFile, out |-> <<>>, today |-> <<>>, ran |-> FALSE]

----------------------------------------------------------------------------
(* Generic helpers *)

Min2(a, b) == IF a <= b THEN a ELSE b

RECURSIVE SumSeq(_)
SumSeq(s) == IF s = <<>> THEN 0 ELSE Head(s) + SumSeq(Tail(s))

RECURSIVE SetMax(_)
SetMax(S) ==
    LET x == CHOOSE x \in S : TRUE
    IN  IF S = {x} THEN x
        ELSE LET m == SetMax(S \ {x}) IN IF x >= m THEN x ELSE m

RECURSIVE SetMin(_)
SetMin(S) ==
    LET x == CHOOSE x \in S : TRUE
    IN  IF S = {x} THEN x
        ELSE LET m == SetMin(S \ {x}) IN IF x <= m THEN x ELSE m

Reverse(s) == [i \in 1..Len(s) |-> s[Len(s) + 1 - i]]

----------------------------------------------------------------------------
(* The calendar: pandas timestamps are proleptic Gregorian. *)

SecondsPerDay == 86400

IsLeap(y) == (y % 4 = 0 /\ y % 100 # 0) \/ y % 400 = 0

DaysInMonth(y, m) ==
    IF m = 2 THEN (IF IsLeap(y) THEN 29 ELSE 28)
    ELSE IF m \in {4, 6, 9, 11} THEN 30 ELSE 31

\* Days from 1970-01-01 to y-m-d.
DaysFromCivil(y, m, d) ==
    LET yy  == IF m <= 2 THEN y - 1 ELSE y
        era == yy \div 400
        yoe == yy - era * 400
        mp  == IF m > 2 THEN m - 3 ELSE m + 9
        doy == (153 * mp + 2) \div 5 + d - 1
        doe == yoe * 365 + yoe \div 4 - yoe \div 100 + doy
    IN  era * 146097 + doe - 719468

\* The calendar month <<year, month>> of a timestamp.
MonthOf(ts) ==
    LET z   == ts \div SecondsPerDay + 719468
        era == z \div 146097
        doe == z - era * 146097
        yoe == (doe - doe \div 1460 + doe \div 36524 - doe \div 146096) \div 365
        doy == doe - (365 * yoe + yoe \div 4 - yoe \div 100)
        mp  == (5 * doy + 2) \div 153
        m   == IF mp < 10 THEN mp + 3 ELSE mp - 9
        y   == yoe + era * 400 + (IF m <= 2 THEN 1 ELSE 0)
    IN  <<y, m>>

\* Months are counted on one axis so that a range of months can be walked.
MonthIndex(ym) == ym[1] * 12 + (ym[2] - 1)
MonthOfIndex(k) == <<k \div 12, (k % 12) + 1>>

----------------------------------------------------------------------------
(* Cell conversions of load_data *)

Digits == <<"0", "1", "2", "3", "4", "5", "6", "7", "8", "9">>

IsDigit(c) == \E i \in 1..10 : Digits[i] = c
DigitVal(c) == (CHOOSE i \in 1..10 : Digits[i] = c) - 1

RECURSIVE DigitsVal(_)
DigitsVal(t) ==
    IF t = <<>> THEN 0
    ELSE DigitsVal(SubSeq(t, 1, Len(t) - 1)) * 10 + DigitVal(t[Len(t)])

AllDigits(t) == t # <<>> /\ \A i \in 1..Len(t) : IsDigit(t[i])

\* A conversion that puts 0 where the text is not a number.
to_numeric_fillna(cell) ==
    IF cell = <<>> THEN <<0>>
    ELSE IF AllDigits(cell) THEN <<DigitsVal(cell)>>
    ELSE IF Head(cell) = "-" /\ AllDigits(Tail(cell)) THEN <<0 - DigitsVal(Tail(cell))>>
    ELSE <<0>>

\* pd.to_numeric(..., errors="coerce") on one cell.  The text of an amount
\* cell is a sequence of characters (<<>> is the empty cell); an optional minus
\* sign and decimal digits parse to a number, the empty cell and every other
\* text the model draws (letters, a decimal comma) become NaN.
to_numeric(cell) ==
    IF cell = <<>> THEN NaN
    ELSE IF AllDigits(cell) THEN <<DigitsVal(cell)>>
    ELSE IF Head(cell) = "-" /\ AllDigits(Tail(cell)) THEN <<0 - DigitsVal(Tail(cell))>>
    ELSE NaN

\* The layout "%d.%m.%Y %H:%M:%S" of line 39.
DateFormat == "d.m.Y H:M:S"

\* Whether a non-empty date cell matches the format: the layout of its
\* separators, and every field in its calendar range.
MatchesFormat(cell) ==
    /\ cell.layout = DateFormat
    /\ cell.mo \in 1..12
    /\ cell.d \in 1..DaysInMonth(cell.y, cell.mo)
    /\ cell.h \in 0..23
    /\ cell.mi \in 0..59
    /\ cell.s \in 0..59

Timestamp(cell) ==
    DaysFromCivil(cell.y, cell.mo, cell.d) * SecondsPerDay
        + cell.h * 3600 + cell.mi * 60 + cell.s

\* A conversion that never raises (errors="coerce").
to_datetime_coerce(column) == FALSE

\* pd.to_datetime(column, format=...) on a whole column: an empty cell becomes
\* NaT, a matching text its timestamp, and one text that does not match raises
\* ValueError for the whole column.
to_datetime_raises(column) ==
    \E i \in 1..Len(column) : column[i] # <<>> /\ ~MatchesFormat(column[i][1])

to_datetime(column) ==
    [i \in 1..Len(column) |->
        IF column[i] = <<>> THEN NaT
        ELSE IF MatchesFormat(column[i][1]) THEN <<Timestamp(column[i][1])>>
        ELSE NaT]

\* Series.map({"Ano": True, "Nie": False}) ("Ano" stands for the accented
\* Slovak word of line 45): any other value becomes NaN.
MapIsAnonymous(cell) ==
    IF cell = <<"Ano">> THEN <<TRUE>>
    ELSE IF cell = <<"Nie">> THEN <<FALSE>>
    ELSE NaN

----------------------------------------------------------------------------
(* load_data, lines 27-47 *)

NumColumns == 16

\* pd.read_csv raises EmptyDataError on a file without a header line, and
\* assigning the sixteen English names raises ValueError unless the file has
\* exactly sixteen columns.
read_csv_raises(file) == file.columns # NumColumns

load_data_raises(file) ==
    \/ read_csv_raises(file)
    \/ to_datetime_raises([i \in 1..Len(file.rows) |-> file.rows[i].DonationDate])

load_data(file) ==
    LET rows  == file.rows
        dates == to_datetime([i \in 1..Len(rows) |-> rows[i].DonationDate])
    IN  [i \in 1..Len(rows) |->
            [Campaign      |-> rows[i].Campaign,
             DonationDate  |-> dates[i],
             AmountEUR     |-> to_numeric(rows[i].AmountEUR),
             Frequency     |-> rows[i].Frequency,
             PaymentStatus |-> rows[i].PaymentStatus,
             Email         |-> rows[i].Email,
             IsAnonymous   |-> MapIsAnonymous(rows[i].IsAnonymous),
             DonorType     |-> rows[i].DonorType]]

----------------------------------------------------------------------------
(* pandas operations the dashboard uses *)

\* A test that takes every table for non-empty.
EmptyNever(d) == FALSE

\* df.empty
Empty(d) == Len(d) = 0

\* What a row adds to a sum of AmountEUR: sum() skips NaN.
Amount(r) == IF r.AmountEUR = NaN THEN 0 ELSE r.AmountEUR[1]

SumAmount(d) == SumSeq([i \in 1..Len(d) |-> Amount(d[i])])

\* Python's order of the strings the model uses (by code point).
Alphabetical ==
    <<"C01", "C02", "C03", "C04", "C05", "C06", "C07", "C08", "C09", "C10",
      "C11", "C12", "Firma", "Fyzicka osoba", "Jednorazova", "Mesacna",
      "a@x.sk", "b@x.sk">>

Rank(k) == CHOOSE i \in 1..Len(Alphabetical) : Alphabetical[i] = k

\* The keys of a set in ascending order: groupby sorts its group keys.
RECURSIVE SortKeys(_)
SortKeys(K) ==
    IF K = {} THEN <<>>
    ELSE LET k == CHOOSE k \in K : \A j \in K : Rank(k) <= Rank(j)
         IN  <<k>> \o SortKeys(K \ {k})

\* The group keys of column col: groupby drops the rows whose key is missing.
GroupKeys(d, col) == {d[i][col][1] : i \in {j \in 1..Len(d) : d[j][col] # <<>>}}

Group(d, col, k) == SelectSeq(d, LAMBDA r : r[col] = <<k>>)

\* df.groupby(col)["AmountEUR"].sum(): a series indexed by the sorted keys.
groupby_sum(d, col) ==
    LET keys == SortKeys(GroupKeys(d, col))
    IN  [i \in 1..Len(keys) |->
            [key |-> keys[i], value |-> SumAmount(Group(d, col, keys[i]))]]

\* A stable ascending sort of records by field `by`: numpy sorts arrays of at
\* most sixteen elements by insertion.  In longer arrays the order of equal
\* values is not specified; the tables of the model are shorter.
RECURSIVE InsertByValue(_, _, _)
InsertByValue(s, x, by) ==
    IF s = <<>> THEN <<x>>
    ELSE IF s[Len(s)][by] <= x[by] THEN Append(s, x)
    ELSE Append(InsertByValue(SubSeq(s, 1, Len(s) - 1), x, by), s[Len(s)])

RECURSIVE StableSort(_, _)
StableSort(s, by) ==
    IF s = <<>> THEN <<>>
    ELSE InsertByValue(StableSort(SubSeq(s, 1, Len(s) - 1), by), s[Len(s)], by)

\* sort_values(by=..., ascending=...): a descending sort reverses, sorts
\* ascending and reverses again.
sort_values(s, by, ascending) ==
    IF ascending THEN StableSort(s, by)
    ELSE Reverse(StableSort(Reverse(s), by))

head(s, n) == SubSeq(s, 1, Min2(n, Len(s)))

\* The first n in place of the last n.
tail_first(s, n) == SubSeq(s, 1, Min2(n, Len(s)))

tail(s, n) == SubSeq(s, Len(s) - Min2(n, Len(s)) + 1, Len(s))

\* df[col].value_counts(): the number of rows per present value, the most
\* frequent first.
value_counts(d, col) ==
    LET keys == SortKeys(GroupKeys(d, col))
    IN  sort_values([i \in 1..Len(keys) |->
                        [key |-> keys[i], value |-> Len(Group(d, col, keys[i]))]],
                    "value", FALSE)

----------------------------------------------------------------------------
(* The five aggregates, lines 60-136 *)

Dated(d) == SelectSeq(d, LAMBDA r : r.DonationDate # NaT)

Stamps(d) == {d[i].DonationDate[1] : i \in {j \in 1..Len(d) : d[j].DonationDate # NaT}}

\* Monthly sums by grouping on the month, which has no entry for a month
\* without rows.
monthly_donations_groupby(d) ==
    LET months == {MonthIndex(MonthOf(ts)) : ts \in Stamps(d)}
        RECURSIVE Walk(_)
        Walk(M) ==
            IF M = {} THEN <<>>
            ELSE LET k == SetMin(M)
                 IN  <<[key   |-> MonthOfIndex(k),
                        value |-> SumAmount(SelectSeq(Dated(d),
                                      LAMBDA r : MonthIndex(MonthOf(r.DonationDate[1])) = k))]>>
                     \o Walk(M \ {k})
    IN  Walk(months)

\* df.set_index("DonationDate")["AmountEUR"].resample("ME").sum(), relabelled
\* '%Y-%m' (lines 62-63): one bin per calendar month from the month of the
\* earliest timestamp to the month of the latest; a row falls into the bin of
\* its calendar month (the month-end edges are moved to the last instant of
\* the day), rows without a timestamp fall into no bin, an empty bin sums to 0.
monthly_donations(d) ==
    IF Stamps(d) = {} THEN <<>>
    ELSE LET lo == MonthIndex(MonthOf(SetMin(Stamps(d))))
             hi == MonthIndex(MonthOf(SetMax(Stamps(d))))
         IN  [k \in 1..(hi - lo + 1) |->
                LET label == MonthOfIndex(lo + k - 1)
                IN  [key   |-> label,
                     value |-> SumAmount(SelectSeq(Dated(d),
                                   LAMBDA r : MonthOf(r.DonationDate[1]) = label))]]

\* Line 68.
campaign_totals(d) == sort_values(groupby_sum(d, "Campaign"), "value", FALSE)

TopN == 5

\* Line 69.
top_5(d) == sort_values(head(campaign_totals(d), TopN), "value", TRUE)

\* Line 80.
bottom_5(d) == sort_values(tail(campaign_totals(d), TopN), "value", TRUE)

\* Lines 92-93.
freq_counts(d) == value_counts(d, "Frequency")

\* Line 105.
donor_counts(d) == value_counts(d, "DonorType")

\* Line 110.
donation_sums(d) == sort_values(groupby_sum(d, "DonorType"), "value", FALSE)

\* The status text compared at line 115, written without its accents.
Successful == <<"Uspesna">>

\* No restriction to the successful payments.
SuccessfulOnlyAll(d) == d

\* Line 115: df[df['PaymentStatus'] == 'Uspesna'].
SuccessfulOnly(d) == SelectSeq(d, LAMBDA r : r.PaymentStatus = Successful)

\* The reference date taken from the wall clock.
TodayFromClock(d) == <<(now + 1) * SecondsPerDay>>

\* The reference date without the added day.
TodayNoDay(d) == IF Stamps(d) = {} THEN NaT ELSE <<SetMax(Stamps(d))>>

\* Line 116: df['DonationDate'].max() + pd.Timedelta(days=1); max() skips NaT
\* and is NaT when no row has a timestamp.
Today(d) ==
    IF Stamps(d) = {} THEN NaT ELSE <<SetMax(Stamps(d)) + SecondsPerDay>>

\* Line 119: (today - x.max()).days, NaN when either side is NaT.
Recency(t, g) ==
    IF t = NaT \/ Stamps(g) = {} THEN NaN
    ELSE <<(t[1] - SetMax(Stamps(g))) \div SecondsPerDay>>

\* The table with the number of distinct Emails of a group as its Frequency.
rfm_nunique(d, t) ==
    LET keys == SortKeys(GroupKeys(d, "Email"))
    IN  [i \in 1..Len(keys) |->
            LET g == Group(d, "Email", keys[i])
            IN  [Email     |-> keys[i],
                 Recency   |-> Recency(t, g),
                 Frequency |-> 1,
                 Monetary  |-> SumAmount(g)]]

\* Lines 118-126: one row per present Email, in the order of the keys.
rfm(d, t) ==
    LET keys == SortKeys(GroupKeys(d, "Email"))
    IN  [i \in 1..Len(keys) |->
            LET g == Group(d, "Email", keys[i])
            IN  [Email     |-> keys[i],
                 Recency   |-> Recency(t, g),
                 Frequency |-> Len(g),
                 Monetary  |-> SumAmount(g)]]

----------------------------------------------------------------------------
(* The script, one action per section *)

Element(e, n, data) == [element |-> e, name |-> n, data |-> data]

\* The restriction to successful payments placed before the first section.
SectionFrameFiltered(section, d) == SuccessfulOnly(d)

\* The table that the name df denotes while a section of the dashboard
\* computes: df is rebound once, at line 115, to the successful payments.
SectionFrame(section, d) == IF section = "rfm" THEN SuccessfulOnly(d) ELSE d

\* A widget interaction: Streamlit re-executes the script from line 1 with
\* fresh variables.  The clock may have advanced; `earlier` may keep the run
\* that just finished.
Upload(Files, Clocks, Remember) ==
    /\ pc \in {"done", "failed"}
    /\ \E f \in Files \cup {NoFile} : uploaded_file' = f
    /\ \E c \in Clocks : c >= now /\ now' = c
    /\ earlier' \in {earlier} \cup
            (IF Remember
             THEN {[file |-> uploaded_file, out |-> out, today |-> today,
                    ran |-> TRUE]}
             ELSE {})
    /\ pc' = "start"
    /\ df' = NoTable
    /\ today' = NaT
    /\ out' = <<>>

\* Lines 7-23 and 50: the page title, the introduction and the uploader.
Header ==
    /\ pc = "start"
    /\ out' = <<Element("title", "UNICEF Donations Dashboard", <<>>),
                Element("markdown", "About this Dashboard", <<>>)>>
    /\ pc' = "uploader"
    /\ UNCHANGED <<uploaded_file, df, today, now, earlier>>

\* Lines 52, 142-143: no file.
NoUpload ==
    /\ pc = "uploader"
    /\ uploaded_file = NoFile
    /\ out' = Append(out, Element("info", "Please upload a CSV file", <<>>))
    /\ pc' = "done"
    /\ UNCHANGED <<uploaded_file, df, today, now, earlier>>

\* Line 53, load_data returns.
LoadData ==
    /\ pc = "uploader"
    /\ uploaded_file # NoFile
    /\ ~load_data_raises(uploaded_file)
    /\ df' = load_data(uploaded_file)
    /\ pc' = "loaded"
    /\ UNCHANGED <<uploaded_file, today, out, now, earlier>>

\* Line 53, load_data raises: Streamlit shows the exception and the run ends.
LoadDataRaises ==
    /\ pc = "uploader"
    /\ uploaded_file # NoFile
    /\ load_data_raises(uploaded_file)
    /\ out' = Append(out, Element("exception", "load_data", <<>>))
    /\ pc' = "failed"
    /\ UNCHANGED <<uploaded_file, df, today, now, earlier>>

\* Line 56.
Success ==
    /\ pc = "loaded"
    /\ out' = Append(out, Element("success", "File successfully uploaded", <<>>))
    /\ pc' = "visuals"
    /\ UNCHANGED <<uploaded_file, df, today, now, earlier>>

\* Lines 60, 139-140: the table has no rows.
NoData ==
    /\ pc = "visuals"
    /\ Empty(df)
    /\ out' = Append(out, Element("warning", "No data loaded", <<>>))
    /\ pc' = "done"
    /\ UNCHANGED <<uploaded_file, df, today, now, earlier>>

\* Lines 61-65.
MonthlyDonations ==
    /\ pc = "visuals"
    /\ ~Empty(df)
    /\ LET frame == SectionFrame("monthly", df)
       IN  /\ df' = frame
           /\ out' = out \o
                <<Element("subheader", "Total Donation Amount by Month", <<>>),
                  Element("bar_chart", "monthly_donations", monthly_donations(frame))>>
    /\ pc' = "campaigns"
    /\ UNCHANGED <<uploaded_file, today, now, earlier>>

\* Lines 67-88.
Campaigns ==
    /\ pc = "campaigns"
    /\ LET frame == SectionFrame("campaigns", df)
       IN  /\ df' = frame
           /\ out' = out \o
                <<Element("subheader", "Top 5 Campaigns by Donation Amount", <<>>),
                  Element("altair_chart", "top_5", top_5(frame)),
                  Element("subheader", "Bottom 5 Campaigns by Donation Amount", <<>>),
                  Element("altair_chart", "bottom_5", bottom_5(frame))>>
    /\ pc' = "frequency"
    /\ UNCHANGED <<uploaded_file, today, now, earlier>>

\* Lines 90-99.
FrequencyPie ==
    /\ pc = "frequency"
    /\ LET frame == SectionFrame("frequency", df)
       IN  /\ df' = frame
           /\ out' = out \o
                <<Element("subheader", "Donation Frequency Distribution", <<>>),
                  Element("altair_chart", "freq_counts", freq_counts(frame))>>
    /\ pc' = "donor_type"
    /\ UNCHANGED <<uploaded_file, today, now, earlier>>

\* Lines 101-112.
DonorTypeVisuals ==
    /\ pc = "donor_type"
    /\ LET frame == SectionFrame("donor_type", df)
       IN  /\ df' = frame
           /\ out' = out \o
                <<Element("subheader", "Number of Donations by Donor Type", <<>>),
                  Element("bar_chart", "donor_counts", donor_counts(frame)),
                  Element("subheader", "Total Donation Amount by Donor Type", <<>>),
                  Element("bar_chart", "donation_sums", donation_sums(frame))>>
    /\ pc' = "rfm"
    /\ UNCHANGED <<uploaded_file, today, now, earlier>>

\* Lines 114-136.
RFMAnalysis ==
    /\ pc = "rfm"
    /\ LET frame == SectionFrame("rfm", df)
           t     == Today(frame)
       IN  /\ df' = frame
           /\ today' = t
           /\ out' = out \o
                <<Element("header", "RFM Analysis", <<>>),
                  Element("write", "This table shows", <<>>),
                  Element("dataframe", "rfm",
                          sort_values(rfm(frame, t), "Monetary", FALSE))>>
    /\ pc' = "done"
    /\ UNCHANGED <<uploaded_file, now, earlier>>

Run ==
    \/ Header
    \/ NoUpload
    \/ LoadData
    \/ LoadDataRaises
    \/ Success
    \/ NoData
    \/ MonthlyDonations
    \/ Campaigns
    \/ FrequencyPie
    \/ DonorTypeVisuals
    \/ RFMAnalysis

----------------------------------------------------------------------------
(* The uploaded files the specifications draw from *)

DateCell(d, mo, y, h, mi, sec) ==
    <<[layout |-> DateFormat, d |-> d, mo |-> mo, y |-> y, h |-> h, mi |-> mi,
       s |-> sec]>>

Dec15 == DateCell(15, 12, 2023, 10, 0, 0)
Jan31 == DateCell(31, 1, 2024, 23, 59, 59)
Feb01 == DateCell(1, 2, 2024, 0, 0, 0)
Feb29 == DateCell(29, 2, 2024, 12, 0, 0)
Apr02 == DateCell(2, 4, 2024, 8, 30, 0)

\* Texts that do not match the format: another layout, and days that the
\* month does not have.
IsoDate == <<[layout |-> "Y-m-d H:M:S", d |-> 31, mo |-> 1, y |-> 2024,
              h |-> 10, mi |-> 0, s |-> 0]>>
Feb31 == DateCell(31, 2, 2024, 10, 0, 0)
Feb29NoLeap == DateCell(29, 2, 2023, 10, 0, 0)

Five == <<"5">>
Ten == <<"1", "0">>
MinusThree == <<"-", "3">>
DecimalComma == <<"1", "2", ",", "5", "0">>
Letters == <<"a", "b", "c">>

Failed == <<"Neuspesna">>
EmailA == <<"a@x.sk">>
EmailB == <<"b@x.sk">>

\* A line of the CSV file.  The three columns no claim varies on their own
\* follow the others, so that they still take several values.
Row(c, d, a, st, e) ==
    [Campaign      |-> c,
     DonationDate  |-> d,
     AmountEUR     |-> a,
     Frequency     |-> IF a = <<>> THEN <<>>
                       ELSE IF st = Successful THEN <<"Mesacna">>
                       ELSE <<"Jednorazova">>,
     PaymentStatus |-> st,
     Email         |-> e,
     IsAnonymous   |-> IF e = <<>> THEN <<"Ano">>
                       ELSE IF e = EmailA THEN <<"Nie">> ELSE <<>>,
     DonorType     |-> IF e = EmailA THEN <<"Firma">>
                       ELSE IF d = <<>> THEN <<>> ELSE <<"Fyzicka osoba">>]

File(rows) == [columns |-> NumColumns, rows |-> rows]

SeqsUpTo(S, n) == UNION {[1..k -> S] : k \in 0..n}

\* Every family holds the file of a header line alone, an empty file and a
\* file of fifteen columns.
BaseFiles ==
    {File(<<>>), [columns |-> 0, rows |-> <<>>],
     [columns |-> 15, rows |-> <<Row(<<"C01">>, Jan31, Five, Successful, EmailA)>>]}

\* A table with rows whose DonationDate column is entirely empty is outside
\* the model: what resample does on an index of NaT alone is not modelled.
Modelled(f) ==
    f.rows = <<>> \/ \E i \in 1..Len(f.rows) : f.rows[i].DonationDate # <<>>

Family(Rows, n) ==
    BaseFiles \cup {f \in {File(r) : r \in SeqsUpTo(Rows, n)} : Modelled(f)}

MaxRowsLoad == 2
MaxRowsRuns == 1
MaxRowsRFM == 3
MaxRowsMonthly == 3
MaxCampaigns == 10
MaxClock == 1

\* The day the session opens, 2024-05-01, as a day number.
ClockStart == DaysFromCivil(2024, 5, 1)

RowsLoad ==
    {Row(<<"C01">>, d, a, st, EmailA) :
        d \in {Jan31, Feb01, IsoDate, Feb31, <<>>},
        a \in {Five, DecimalComma, <<>>},
        st \in {Successful, Failed}}

FilesLoad == Family(RowsLoad, MaxRowsLoad)

RowsRuns ==
    {Row(<<"C01">>, Dec15, Five, Successful, EmailA),
     Row(<<"C02">>, Jan31, Ten, Successful, EmailB),
     Row(<<"C02">>, Feb01, Letters, Failed, EmailA),
     Row(<<"C01">>, IsoDate, Five, Successful, EmailB)}

FilesRuns == Family(RowsRuns, MaxRowsRuns)

\* Successful donations of two donors and of donors without an Email, dated
\* and undated, and failed payments dated after them.
RowsRFM ==
    {Row(<<"C01">>, Dec15, Five, Successful, EmailA),
     Row(<<"C01">>, Feb01, Five, Successful, EmailA),
     Row(<<"C01">>, Dec15, Ten, Successful, EmailB),
     Row(<<"C01">>, Feb01, Letters, Successful, EmailB),
     Row(<<"C01">>, Feb01, Five, Successful, <<>>),
     Row(<<"C01">>, Dec15, Ten, Successful, <<>>),
     Row(<<"C01">>, <<>>, Five, Successful, EmailA),
     Row(<<"C01">>, <<>>, Ten, Successful, EmailB),
     Row(<<"C02">>, Apr02, Ten, Failed, EmailA),
     Row(<<"C02">>, Apr02, Five, Failed, <<>>)}

FilesRFM == Family(RowsRFM, MaxRowsRFM)

RowsMonthly ==
    {Row(<<"C01">>, d, a, Successful, EmailA) :
        d \in {Dec15, Jan31, Feb01, <<>>},
        a \in {Five, MinusThree, <<>>}}

FilesMonthly == Family(RowsMonthly, MaxRowsMonthly)

\* One row per campaign C01, C02, ..., and possibly two more rows: a second
\* donation to the first campaign and a donation without a campaign.
CampaignName(i) == <<Alphabetical[i]>>

CampaignRows(n, amounts) ==
    [i \in 1..n |-> Row(CampaignName(i), Feb29, amounts[i], Successful, EmailA)]

FilesCampaigns ==
    BaseFiles \cup
    UNION {{File(CampaignRows(n, a) \o extra) :
                a \in [1..n -> {Five, Ten}],
                extra \in {<<>>,
                           <<Row(<<"C01">>, Feb29, Ten, Failed, EmailB),
                             Row(<<>>, Feb29, Ten, Successful, EmailB)>>}} :
           n \in 0..MaxCampaigns}

----------------------------------------------------------------------------
(* Specifications *)

\* A session opens without a file: the first run of the script.
Init ==
    /\ uploaded_file = NoFile
    /\ pc = "start"
    /\ df = NoTable
    /\ today = NaT
    /\ out = <<>>
    /\ now = ClockStart
    /\ earlier = NoRun

\* The start of a run for which the user has chosen one of Files, or nothing.
RunOf(Files) ==
    /\ uploaded_file \in Files \cup {NoFile}
    /\ pc = "start"
    /\ df = NoTable
    /\ today = NaT
    /\ out = <<>>
    /\ now = ClockStart
    /\ earlier = NoRun

\* One run: loading and the order of the sections.
InitLoad == RunOf(FilesLoad)
Next == Run
Spec == InitLoad /\ [][Next]_vars

\* Several runs at different times, one earlier run remembered.
NextRuns == Upload(FilesRuns, ClockStart..(ClockStart + MaxClock), TRUE) \/ Run
SpecRuns == Init /\ [][NextRuns]_vars

InitRFM == RunOf(FilesRFM)
SpecRFM == InitRFM /\ [][Next]_vars

InitMonthly == RunOf(FilesMonthly)
SpecMonthly == InitMonthly /\ [][Next]_vars

InitCampaigns == RunOf(FilesCampaigns)
SpecCampaigns == InitCampaigns /\ [][Next]_vars

----------------------------------------------------------------------------
(* What a run has rendered *)

AggregateNames ==
    {"monthly_donations", "top_5", "bottom_5", "freq_counts", "donor_counts",
     "donation_sums", "rfm"}

Shown(n) == \E i \in 1..Len(out) : out[i].name = n
Position(n) == CHOOSE i \in 1..Len(out) : out[i].name = n
Data(n) == out[Position(n)].data

AggregatesRendered == \E n \in AggregateNames : Shown(n)
AllAggregatesRendered == \A n \in AggregateNames : Shown(n)

Finished == pc \in {"done", "failed"}

FileRows == uploaded_file.rows

\* The date texts of the model that do not match day.month.year
\* hour:minute:second, and the timestamps of those that do.
MalformedTexts == {IsoDate, Feb31, Feb29NoLeap}

ExpectedStamp(cell) ==
    IF cell = Dec15 THEN <<1702634400>>
    ELSE IF cell = Jan31 THEN <<1706745599>>
    ELSE IF cell = Feb01 THEN <<1706745600>>
    ELSE IF cell = Feb29 THEN <<1709208000>>
    ELSE IF cell = Apr02 THEN <<1712046600>>
    ELSE NaT

\* The amount texts of the model and the numbers they denote.
ExpectedAmount(cell) ==
    IF cell = Five THEN <<5>>
    ELSE IF cell = Ten THEN <<10>>
    ELSE IF cell = MinusThree THEN <<-3>>
    ELSE NaN

\* The campaigns of the uploaded file and the total of each, from the cells.
FileCampaigns ==
    {FileRows[i].Campaign[1] : i \in {j \in 1..Len(FileRows) : FileRows[j].Campaign # <<>>}}

FileCampaignTotal(c) ==
    SumSeq([i \in 1..Len(FileRows) |->
              IF FileRows[i].Campaign = <<c>>
                  /\ ExpectedAmount(FileRows[i].AmountEUR) # NaN
              THEN ExpectedAmount(FileRows[i].AmountEUR)[1]
              ELSE 0])

Keys(chart) == {chart[i].key : i \in 1..Len(chart)}

DatedLines == {i \in 1..Len(FileRows) : FileRows[i].DonationDate # <<>>}

\* The calendar month written in a date cell, on the axis of months.
FileMonth(i) ==
    FileRows[i].DonationDate[1].y * 12 + FileRows[i].DonationDate[1].mo - 1

FileAmount(i) ==
    IF ExpectedAmount(FileRows[i].AmountEUR) = NaN THEN 0
    ELSE ExpectedAmount(FileRows[i].AmountEUR)[1]

SumOver(I) == SumSeq([i \in 1..Len(FileRows) |-> IF i \in I THEN FileAmount(i) ELSE 0])

ChartTotal(chart) == SumSeq([k \in 1..Len(chart) |-> chart[k].value])

----------------------------------------------------------------------------
(* Claims under Spec *)

\* C1: when a record of the uploaded file carries a DonationDate text that
\* does not match day.month.year hour:minute:second, load_data fails as a
\* whole: no table is bound to df, and neither the success message nor any
\* aggregate, chart or table is rendered, also when other records are well
\* formed.
C1_MalformedDateFailsLoad ==
    (/\ uploaded_file # NoFile
     /\ \E i \in 1..Len(FileRows) : FileRows[i].DonationDate \in MalformedTexts)
    => /\ df = NoTable
       /\ pc \in {"start", "uploader", "failed"}
       /\ ~AggregatesRendered
       /\ \A i \in 1..Len(out) :
            out[i].element \notin
                {"success", "bar_chart", "altair_chart", "dataframe", "warning"}

\* C1 witness: a finished run on a file with one well-formed and one
\* malformed date.
C1_Witness ==
    /\ pc = "failed"
    /\ uploaded_file.columns = NumColumns
    /\ Len(FileRows) = 2
    /\ FileRows[1].DonationDate = Jan31
    /\ FileRows[2].DonationDate = Feb31

\* C2: after a successful load, and until df is rebound, the table has one
\* record per line of the file; AmountEUR is the number the text denotes or
\* absent when the text is not a number, and every other column is what the
\* load makes of its own cell, whatever the amount text is.
C2_AmountNumericOrAbsent ==
    pc \in {"loaded", "visuals", "campaigns", "frequency", "donor_type", "rfm"}
    => /\ Len(df) = Len(FileRows)
       /\ \A i \in 1..Len(df) :
            /\ df[i].AmountEUR = ExpectedAmount(FileRows[i].AmountEUR)
            /\ df[i].DonationDate = ExpectedStamp(FileRows[i].DonationDate)
            /\ df[i].Campaign = FileRows[i].Campaign
            /\ df[i].Frequency = FileRows[i].Frequency
            /\ df[i].PaymentStatus = FileRows[i].PaymentStatus
            /\ df[i].Email = FileRows[i].Email
            /\ df[i].DonorType = FileRows[i].DonorType
            /\ df[i].IsAnonymous \in {<<TRUE>>, <<FALSE>>, NaN}

\* C2 witness: a loaded table of two records, the first with a decimal comma
\* in its amount, the second with a number.
C2_Witness ==
    /\ pc = "loaded"
    /\ Len(df) = 2
    /\ FileRows[1].AmountEUR = DecimalComma
    /\ df[1].AmountEUR = NaN
    /\ df[2].AmountEUR = <<5>>

\* C4: every aggregate rendered is the aggregate of the loaded table alone:
\* the monthly, campaign, frequency and donor-type results are computed over
\* all loaded records whatever their PaymentStatus, and the restriction to
\* successful payments reaches the RFM table only.
C4_AggregatesOfLoadedTable ==
    LET t == load_data(uploaded_file)
        s == SuccessfulOnly(t)
    IN  /\ Shown("monthly_donations") =>
              Data("monthly_donations") = monthly_donations(t)
        /\ Shown("monthly_donations") =>
              ChartTotal(Data("monthly_donations")) = SumOver(DatedLines)
        /\ Shown("top_5") =>
              /\ Data("top_5") = top_5(t)
              /\ \A k \in 1..Len(Data("top_5")) :
                    Data("top_5")[k].value = FileCampaignTotal(Data("top_5")[k].key)
        /\ Shown("bottom_5") => Data("bottom_5") = bottom_5(t)
        /\ Shown("freq_counts") => Data("freq_counts") = freq_counts(t)
        /\ Shown("donor_counts") =>
              /\ Data("donor_counts") = donor_counts(t)
              /\ SumSeq([i \in 1..Len(Data("donor_counts")) |->
                            Data("donor_counts")[i].value])
                    = Cardinality({i \in 1..Len(FileRows) :
                                      FileRows[i].DonorType # <<>>})
        /\ Shown("donation_sums") => Data("donation_sums") = donation_sums(t)
        /\ Shown("rfm") =>
              Data("rfm") = sort_values(rfm(s, Today(s)), "Monetary", FALSE)

\* C4 witness: a finished run on a file with a failed payment, whose amount
\* is in the campaign total although the RFM table leaves it out.
C4_Witness ==
    /\ pc = "done"
    /\ Len(FileRows) = 2
    /\ FileRows[1].PaymentStatus = Failed
    /\ FileRows[2].PaymentStatus = Successful
    /\ FileRows[1].AmountEUR = Five
    /\ FileRows[2].AmountEUR = Five
    /\ Shown("top_5") /\ Data("top_5") = <<[key |-> "C01", value |-> 10]>>
    /\ Shown("rfm") /\ Len(Data("rfm")) = 1 /\ Data("rfm")[1].Monetary = 5

----------------------------------------------------------------------------
(* Claims under SpecRuns *)

\* C5: whatever was uploaded in earlier runs and whenever the runs happen, a
\* finished run on the file of an earlier finished run has rendered the same
\* page, with the same RFM reference date.
C5_SameFileSameOutput ==
    (Finished /\ earlier.ran /\ earlier.file = uploaded_file)
    => (out = earlier.out /\ today = earlier.today)

\* C5 witness: a file with a record is rendered a second time, on a later
\* day.
C5_Witness ==
    /\ pc = "done"
    /\ earlier.ran
    /\ earlier.file = uploaded_file
    /\ Len(FileRows) > 0
    /\ Shown("rfm") /\ Len(Data("rfm")) > 0
    /\ now > ClockStart

----------------------------------------------------------------------------
(* Claims under SpecCampaigns *)

\* A chart of min(5, n) distinct campaigns, each with its total.
RankingChart(chart) ==
    /\ Len(chart) = Min2(5, Cardinality(FileCampaigns))
    /\ Cardinality(Keys(chart)) = Len(chart)
    /\ Keys(chart) \subseteq FileCampaigns
    /\ \A i \in 1..Len(chart) : chart[i].value = FileCampaignTotal(chart[i].key)

\* C7: with n distinct campaigns, the Top 5 chart shows min(5, n) campaigns,
\* each with a total at least that of every campaign it does not show; the
\* Bottom 5 chart shows min(5, n) campaigns, each with a total at most that
\* of every campaign it does not show; with n >= 10 the charts share no
\* campaign.
C7_CampaignRanking ==
    (Shown("top_5") /\ Shown("bottom_5")) =>
        LET top    == Data("top_5")
            bottom == Data("bottom_5")
        IN  /\ RankingChart(top)
            /\ \A c \in Keys(top) : \A o \in FileCampaigns \ Keys(top) :
                    FileCampaignTotal(c) >= FileCampaignTotal(o)
            /\ RankingChart(bottom)
            /\ \A c \in Keys(bottom) : \A o \in FileCampaigns \ Keys(bottom) :
                    FileCampaignTotal(c) <= FileCampaignTotal(o)
            /\ Cardinality(FileCampaigns) >= 10 => Keys(top) \cap Keys(bottom) = {}

\* C7 witness: ten campaigns or more with different totals, one of them
\* with two donations, in a finished run.
C7_Witness ==
    /\ pc = "done"
    /\ Cardinality(FileCampaigns) >= 10
    /\ Len(FileRows) > Cardinality(FileCampaigns)
    /\ FileCampaignTotal("C01") = 15
    /\ "C01" \in Keys(Data("top_5"))
    /\ \E c \in Keys(Data("bottom_5")) : FileCampaignTotal(c) = 5
    /\ \E c \in Keys(Data("top_5")) : FileCampaignTotal(c) = 10
    /\ Keys(Data("top_5")) \cap Keys(Data("bottom_5")) = {}

----------------------------------------------------------------------------
(* Claims under SpecMonthly *)

\* One entry for every month from the earliest to the latest date, in order,
\* each the sum of the amounts dated in its month.
MonthlyEntries(chart) ==
    LET lo == SetMin({FileMonth(i) : i \in DatedLines})
        hi == SetMax({FileMonth(i) : i \in DatedLines})
    IN  /\ Len(chart) = hi - lo + 1
        /\ \A k \in 1..Len(chart) :
              /\ chart[k].key = <<(lo + k - 1) \div 12, ((lo + k - 1) % 12) + 1>>
              /\ chart[k].value =
                    SumOver({i \in DatedLines : FileMonth(i) = lo + k - 1})

\* C8 as amended: the monthly chart has exactly one entry for every calendar
\* month from the month of the earliest DonationDate to the month of the
\* latest, each the sum of AmountEUR of the records dated in that month
\* (absent amounts contributing 0, a month without records 0), and the
\* entries add up to the sum of AmountEUR over the loaded records that have a
\* DonationDate.
C8_MonthlyTotals ==
    Shown("monthly_donations") =>
        /\ MonthlyEntries(Data("monthly_donations"))
        /\ ChartTotal(Data("monthly_donations")) = SumOver(DatedLines)

\* C8 as stated: the entries add up to the sum of AmountEUR over all loaded
\* records.
C8_Original ==
    Shown("monthly_donations") =>
        /\ MonthlyEntries(Data("monthly_donations"))
        /\ ChartTotal(Data("monthly_donations")) = SumOver(1..Len(FileRows))

\* C8 witness: donations in December and February, none in January, and a
\* donation of 5 without a date.
C8_Witness ==
    /\ pc = "done"
    /\ Len(FileRows) = 3
    /\ FileRows[1].DonationDate = Dec15 /\ FileRows[1].AmountEUR = Five
    /\ FileRows[2].DonationDate = <<>> /\ FileRows[2].AmountEUR = Five
    /\ FileRows[3].DonationDate = Feb01 /\ FileRows[3].AmountEUR = MinusThree
    /\ Data("monthly_donations") =
          <<[key |-> <<2023, 12>>, value |-> 5],
            [key |-> <<2024, 1>>, value |-> 0],
            [key |-> <<2024, 2>>, value |-> -3]>>

----------------------------------------------------------------------------
(* Claims under SpecRFM *)

SuccessfulLines == {i \in 1..Len(FileRows) : FileRows[i].PaymentStatus = Successful}

\* The successful records that name a donor, and the donors.
AttributedLines == {i \in SuccessfulLines : FileRows[i].Email # <<>>}
Donors == {FileRows[i].Email[1] : i \in AttributedLines}
LinesOf(e) == {i \in SuccessfulLines : FileRows[i].Email = <<e>>}

FileStamp(i) == ExpectedStamp(FileRows[i].DonationDate)[1]
LatestOf(I) == SetMax({FileStamp(i) : i \in I \cap DatedLines})

\* The latest DonationDate of all successful records plus one day.
ReferenceDate == LatestOf(SuccessfulLines) + 86400

\* n is the whole number of days from b to a.
WholeDays(n, a, b) == n * 86400 <= a - b /\ a - b < (n + 1) * 86400

RowOf(table, e) == table[CHOOSE k \in 1..Len(table) : table[k].Email = e]

TableSum(table, column) == SumSeq([k \in 1..Len(table) |-> table[k][column]])

\* C9 as amended: every successful record that carries an Email is counted in
\* exactly one RFM row: the Frequencies add up to the number of those records
\* and the Monetary values to the sum of their AmountEUR.  A successful record
\* without an Email is in no row.
C9_AttributedDonationsCounted ==
    Shown("rfm") =>
        /\ TableSum(Data("rfm"), "Frequency") = Cardinality(AttributedLines)
        /\ TableSum(Data("rfm"), "Monetary") = SumOver(AttributedLines)

\* C9 as stated: the Frequencies add up to the number of successful records
\* and the Monetary values to the sum of their AmountEUR.
C9_Original ==
    Shown("rfm") =>
        /\ TableSum(Data("rfm"), "Frequency") = Cardinality(SuccessfulLines)
        /\ TableSum(Data("rfm"), "Monetary") = SumOver(SuccessfulLines)

\* C9 witness: a donor with two successful donations beside a successful
\* donation of 10 without an Email.
C9_Witness ==
    /\ pc = "done"
    /\ Cardinality(AttributedLines) = 2
    /\ Cardinality(SuccessfulLines) = 3
    /\ SumOver(SuccessfulLines) = SumOver(AttributedLines) + 10
    /\ Len(Data("rfm")) = 1
    /\ Data("rfm")[1].Frequency = 2

\* The successful records that carry the latest DonationDate.
LatestLines ==
    {i \in SuccessfulLines \cap DatedLines : FileStamp(i) = LatestOf(SuccessfulLines)}

\* C10 as amended: every Recency of the RFM table is an integer >= 1 or, for a
\* donor without a dated successful donation, absent; and when the latest
\* successful donation carries an Email, the row of that donor has Recency 1.
C10_RecencyBounds ==
    Shown("rfm") =>
        LET table == Data("rfm")
        IN  /\ \A k \in 1..Len(table) :
                  IF LinesOf(table[k].Email) \cap DatedLines = {}
                  THEN table[k].Recency = NaN
                  ELSE table[k].Recency # NaN /\ table[k].Recency[1] >= 1
            /\ \A i \in LatestLines \cap AttributedLines :
                  RowOf(table, FileRows[i].Email[1]).Recency = <<1>>

\* C10 as stated: every Recency is an integer >= 1, and a table with a row
\* has a row of Recency 1.
C10_Original ==
    Shown("rfm") =>
        LET table == Data("rfm")
        IN  /\ \A k \in 1..Len(table) :
                  table[k].Recency # NaN /\ table[k].Recency[1] >= 1
            /\ Len(table) > 0 => \E k \in 1..Len(table) : table[k].Recency = <<1>>

\* C10 witness: the donor of the latest successful donation beside a donor
\* whose last donation is 48 days older.
C10_Witness ==
    /\ pc = "done"
    /\ LatestLines \cap AttributedLines # {}
    /\ Len(Data("rfm")) = 2
    /\ \E k \in 1..2 : Data("rfm")[k].Recency = <<1>>
    /\ \E k \in 1..2 : Data("rfm")[k].Recency = <<48>>

====
